---- MODULE Spec2Model ----
(***************************************************************************)
(* A model of src/src/compare.js: the comparator compiled by Builder.get   *)
(* from an ordered list of (predicate, compare) plugins, the structural    *)
(* helpers compareObjects and compareArrays, comparePrimitives, and the    *)
(* default rule list exported as `builder` / `compare`.                    *)
(*                                                                         *)
(* JavaScript values are records                                           *)
(*   [type, num, nan, str, keys, items]                                    *)
(* type  : the runtime kind of the value                                   *)
(* num   : the number of a number, the 0/1 of a boolean, the time value of *)
(*         a date                                                          *)
(* nan   : TRUE for NaN and for an invalid date                            *)
(* str   : the UTF-16 code units of a string, the source of a RegExp       *)
(* keys  : the own enumerable property names of an object, in insertion    *)
(*         order (what Object.keys returns), each a code unit sequence     *)
(* items : the elements of an array by index, or the property values of an *)
(*         object, items[i] being the value of keys[i]                     *)
(***************************************************************************)
EXTENDS Integers, Sequences, FiniteSets, TLC

VARIABLES
    plugins,    \* this.#plugins of the builder the caller holds
    compiled,   \* this.#plugins as the comparator returned by get() reads it
    op,         \* the call that produced the results below
    x, y, z,    \* the arguments of the last call
    xy, yx, yz, xz,  \* compare(x,y), compare(y,x), compare(y,z), compare(x,z)
    calls,      \* calls of compareProperties made by compareObjects(x, y, compare)
    trace,      \* i, j and the return statement taken by compare(x, y)
    stack       \* the activations of compare of a call in progress, innermost last

vars == <<plugins, compiled, op, x, y, z, xy, yx, yz, xz, calls, trace, stack>>

-----------------------------------------------------------------------------
(* Bounds of the value universe and of the builder.                        *)

MaxLen == 2      \* longest array
MaxKeys == 2     \* most properties of an object
MaxDepth == 2    \* deepest nesting of arrays/objects
MaxRules == 2    \* most rules appended to a builder by the caller
MaxStack == 5    \* activations of compare the call stack has room for

-----------------------------------------------------------------------------
(* Values.                                                                 *)

Val(t, n, isNaN, s, ks, its) ==
    [type |-> t, num |-> n, nan |-> isNaN, str |-> s, keys |-> ks, items |-> its]

Undefined == Val("undefined", 0, FALSE, <<>>, <<>>, <<>>)
Null == Val("null", 0, FALSE, <<>>, <<>>, <<>>)
Num(n) == Val("number", n, FALSE, <<>>, <<>>, <<>>)
NaN == Val("number", 0, TRUE, <<>>, <<>>, <<>>)
Str(s) == Val("string", 0, FALSE, s, <<>>, <<>>)
Bool(b) == Val("boolean", IF b THEN 1 ELSE 0, FALSE, <<>>, <<>>, <<>>)
DateOf(t) == Val("date", t, FALSE, <<>>, <<>>, <<>>)
InvalidDate == Val("date", 0, TRUE, <<>>, <<>>, <<>>)
RegExpOf(src) == Val("regexp", 0, FALSE, src, <<>>, <<>>)
Arr(its) == Val("array", 0, FALSE, <<>>, <<>>, its)
Obj(ks, its) == Val("object", 0, FALSE, <<>>, ks, its)

(* class Box { constructor(value) { this.value = value } } of the tests: an *)
(* instance has the one own property "value".                              *)
Box(n) == Val("box", 0, FALSE, <<>>, <<<<118, 97, 108, 117, 101>>>>, <<Num(n)>>)
(* A function value: matches no predicate of this module.                  *)
Fn(n) == Val("function", n, FALSE, <<>>, <<>>, <<>>)

-----------------------------------------------------------------------------
(* The relational operators of JavaScript, as comparePrimitives uses them. *)

(* ToPrimitive with hint number: a Date gives its time value, a RegExp its *)
(* toString() "/source/", undefined gives NaN and null gives 0; a class    *)
(* instance or plain object gives "[object Object]".                       *)
ToPrimitive(v) ==
    CASE v.type = "number" -> [isStr |-> FALSE, num |-> v.num, nan |-> v.nan, str |-> <<>>]
      [] v.type = "boolean" -> [isStr |-> FALSE, num |-> v.num, nan |-> FALSE, str |-> <<>>]
      [] v.type = "date" -> [isStr |-> FALSE, num |-> v.num, nan |-> v.nan, str |-> <<>>]
      [] v.type = "null" -> [isStr |-> FALSE, num |-> 0, nan |-> FALSE, str |-> <<>>]
      [] v.type = "undefined" -> [isStr |-> FALSE, num |-> 0, nan |-> TRUE, str |-> <<>>]
      [] v.type = "string" -> [isStr |-> TRUE, num |-> 0, nan |-> FALSE, str |-> v.str]
      [] v.type = "regexp" ->
            [isStr |-> TRUE, num |-> 0, nan |-> FALSE, str |-> <<47>> \o v.str \o <<47>>]
      [] v.type \in {"object", "box"} ->
            [isStr |-> TRUE, num |-> 0, nan |-> FALSE,
             str |-> <<91, 111, 98, 106, 101, 99, 116, 32, 79, 98, 106, 101, 99, 116, 93>>]

(* ToNumber of a primitive; the strings of this model are "" or letters.   *)
ToNumber(p) ==
    IF p.isStr
    THEN [num |-> 0, nan |-> p.str # <<>>]
    ELSE [num |-> p.num, nan |-> p.nan]

(* s < t for strings: lexicographic by code unit, a proper prefix first.   *)
RECURSIVE StringLess(_, _)
StringLess(s, t) ==
    IF t = <<>> THEN FALSE
    ELSE IF s = <<>> THEN TRUE
    ELSE IF Head(s) # Head(t) THEN Head(s) < Head(t)
    ELSE StringLess(Tail(s), Tail(t))

(* x < y with NaN taken for the least number.                              *)
Less_nanIsLeast(a, b) ==
    LET pa == ToPrimitive(a)
        pb == ToPrimitive(b)
    IN  IF pa.isStr /\ pb.isStr
        THEN StringLess(pa.str, pb.str)
        ELSE LET na == ToNumber(pa)
                 nb == ToNumber(pb)
             IN  \/ na.nan /\ ~nb.nan
                 \/ ~na.nan /\ ~nb.nan /\ na.num < nb.num

(* x < y: two strings compare by code unit; otherwise both are converted   *)
(* to numbers and a NaN on either side makes the comparison false.         *)
Less(a, b) ==
    LET pa == ToPrimitive(a)
        pb == ToPrimitive(b)
    IN  IF pa.isStr /\ pb.isStr
        THEN StringLess(pa.str, pb.str)
        ELSE LET na == ToNumber(pa)
                 nb == ToNumber(pb)
             IN  ~na.nan /\ ~nb.nan /\ na.num < nb.num

(* comparePrimitives without its `x > y` branch.                           *)
comparePrimitives_noGreater(a, b) == IF Less(a, b) THEN -1 ELSE 0

(* comparePrimitives without its final `return 0`.                         *)
comparePrimitives_noEqual(a, b) == IF Less(a, b) THEN -1 ELSE 1

(* comparePrimitives returning `x - y` for two numbers.                    *)
comparePrimitives_difference(a, b) ==
    IF a.type = "number" /\ b.type = "number" /\ ~a.nan /\ ~b.nan THEN a.num - b.num
    ELSE IF Less(a, b) THEN -1
    ELSE IF Less(b, a) THEN 1
    ELSE 0

comparePrimitives(a, b) ==
    IF Less(a, b) THEN -1
    ELSE IF Less(b, a) THEN 1
    ELSE 0

-----------------------------------------------------------------------------
(* Predicates and rule comparators, by name.                               *)

(* isObject accepting plain objects only, no class instance.               *)
isObject_plainOnly(v) == v.type = "object"

isObject(v) == v.type \in {"object", "box"}
isArray(v) == v.type = "array"
isNumber(v) == v.type = "number"
isString(v) == v.type = "string"
isBoolean(v) == v.type = "boolean"
isDate(v) == v.type = "date"
isRegExp(v) == v.type = "regexp"
isLiteral(lit, v) == v = lit
isBox(v) == v.type = "box"

predicate(name, v) ==
    CASE name = "isUndefined" -> isLiteral(Undefined, v)
      [] name = "isNull" -> isLiteral(Null, v)
      [] name = "isNumber" -> isNumber(v)
      [] name = "isString" -> isString(v)
      [] name = "isObject" -> isObject(v)
      [] name = "isArray" -> isArray(v)
      [] name = "isBoolean" -> isBoolean(v)
      [] name = "isDate" -> isDate(v)
      [] name = "isRegExp" -> isRegExp(v)
      [] name = "isBox" -> isBox(v)

(* (x, y) => x.value - y.value of the tests.                               *)
boxDiff(a, b) == a.items[1].num - b.items[1].num

cmp(name, a, b) ==
    CASE name = "zero" -> 0
      [] name = "comparePrimitives" -> comparePrimitives(a, b)
      [] name = "boxDiff" -> boxDiff(a, b)

Plugin(p, c) == [predicate |-> p, compare |-> c]

-----------------------------------------------------------------------------
(* Object.keys(x).sort(): insertion sort by code unit order.               *)

RECURSIVE insertKey(_, _)
insertKey(k, sorted) ==
    IF sorted = <<>> THEN <<k>>
    ELSE IF StringLess(k, Head(sorted)) THEN <<k>> \o sorted
    ELSE <<Head(sorted)>> \o insertKey(k, Tail(sorted))

RECURSIVE sort(_)
sort(ks) == IF ks = <<>> THEN <<>> ELSE insertKey(Head(ks), sort(Tail(ks)))

objectKeys(v) == v.keys

(* x[k] for an own property k of x.                                        *)
getProperty(v, k) == v.items[CHOOSE i \in 1..Len(v.keys) : v.keys[i] = k]

-----------------------------------------------------------------------------
(* The compiled comparator.  `ps` is the rule list the closure holds; the  *)
(* closure `compare` handed to the helpers is the comparator of `ps`.      *)

RECURSIVE compare(_, _, _)
RECURSIVE compareObjectsFrom(_, _, _, _, _, _)
RECURSIVE compareArraysFrom(_, _, _, _)

(* compareObjects comparing the values of a position before its keys.      *)
compareObjectsFrom_valueFirst(a, b, keysOfX, keysOfY, i, ps) ==
    LET n == Len(keysOfX)
        m == Len(keysOfY)
    IN  IF i < n /\ i < m
        THEN LET result == compare(ps, getProperty(a, keysOfX[i + 1]),
                                       getProperty(b, keysOfY[i + 1]))
             IN  IF result # 0
                 THEN [result |-> result, calls |-> i + 1]
                 ELSE LET keyResult == comparePrimitives(Str(keysOfX[i + 1]),
                                                         Str(keysOfY[i + 1]))
                      IN  IF keyResult # 0
                          THEN [result |-> keyResult, calls |-> i + 1]
                          ELSE compareObjectsFrom(a, b, keysOfX, keysOfY, i + 1, ps)
        ELSE [result |-> comparePrimitives(Num(n), Num(m)), calls |-> i]

(* compareObjects comparing the values with the comparator of the builder *)
(* the last rule was appended to.                                          *)
compareObjectsFrom_staleRules(a, b, keysOfX, keysOfY, i, ps) ==
    LET n == Len(keysOfX)
        m == Len(keysOfY)
    IN  IF i < n /\ i < m
        THEN LET keyResult == comparePrimitives(Str(keysOfX[i + 1]), Str(keysOfY[i + 1]))
             IN  IF keyResult # 0
                 THEN [result |-> keyResult, calls |-> i]
                 ELSE LET result == compare(SubSeq(ps, 1, Len(ps) - 1), getProperty(a, keysOfX[i + 1]),
                                    getProperty(b, keysOfY[i + 1]))
                      IN  IF result # 0
                          THEN [result |-> result, calls |-> i + 1]
                          ELSE compareObjectsFrom(a, b, keysOfX, keysOfY, i + 1, ps)
        ELSE [result |-> comparePrimitives(Num(n), Num(m)), calls |-> i]

(* The for loop of compareObjects from index i (0-based); the result comes *)
(* with the number of calls of compareProperties made.                     *)
compareObjectsFrom(a, b, keysOfX, keysOfY, i, ps) ==
    LET n == Len(keysOfX)
        m == Len(keysOfY)
    IN  IF i < n /\ i < m
        THEN LET keyResult == comparePrimitives(Str(keysOfX[i + 1]), Str(keysOfY[i + 1]))
             IN  IF keyResult # 0
                 THEN [result |-> keyResult, calls |-> i]
                 ELSE LET result == compare(ps, getProperty(a, keysOfX[i + 1]),
                                                getProperty(b, keysOfY[i + 1]))
                      IN  IF result # 0
                          THEN [result |-> result, calls |-> i + 1]
                          ELSE compareObjectsFrom(a, b, keysOfX, keysOfY, i + 1, ps)
        ELSE [result |-> comparePrimitives(Num(n), Num(m)), calls |-> i]

(* compareObjects without the .sort() of the key lists.                    *)
compareObjects_unsortedKeys(a, b, ps) ==
    compareObjectsFrom(a, b, objectKeys(a), objectKeys(b), 0, ps)

compareObjects(a, b, ps) ==
    compareObjectsFrom(a, b, sort(objectKeys(a)), sort(objectKeys(b)), 0, ps)

(* compareArrays ending in `return 0` instead of comparing the lengths.    *)
compareArraysFrom_noLength(a, b, i, ps) ==
    LET n == Len(a.items)
        m == Len(b.items)
    IN  IF i < n /\ i < m
        THEN LET result == compare(ps, a.items[i + 1], b.items[i + 1])
             IN  IF result # 0 THEN result ELSE compareArraysFrom(a, b, i + 1, ps)
        ELSE 0

(* compareArrays comparing the lengths before the elements.                *)
compareArraysFrom_lengthFirst(a, b, i, ps) ==
    LET n == Len(a.items)
        m == Len(b.items)
    IN  IF i = 0 /\ n # m THEN comparePrimitives(Num(n), Num(m))
        ELSE IF i < n /\ i < m
        THEN LET result == compare(ps, a.items[i + 1], b.items[i + 1])
             IN  IF result # 0 THEN result ELSE compareArraysFrom(a, b, i + 1, ps)
        ELSE comparePrimitives(Num(n), Num(m))

(* The for loop of compareArrays from index i (0-based).                   *)
compareArraysFrom(a, b, i, ps) ==
    LET n == Len(a.items)
        m == Len(b.items)
    IN  IF i < n /\ i < m
        THEN LET result == compare(ps, a.items[i + 1], b.items[i + 1])
             IN  IF result # 0 THEN result ELSE compareArraysFrom(a, b, i + 1, ps)
        ELSE comparePrimitives(Num(n), Num(m))

compareArrays(a, b, ps) == compareArraysFrom(a, b, 0, ps)

(* The classification loop: the index of the last rule whose predicate     *)
(* matches v, starting from index k with the index found so far.           *)
RECURSIVE classify(_, _, _, _)

(* The classification loop keeping the first match instead of the last.    *)
classify_firstMatch(ps, v, k, found) ==
    IF k < Len(ps)
    THEN classify(ps, v, k + 1,
                  IF found = -1 /\ predicate(ps[k + 1].predicate, v) THEN k ELSE found)
    ELSE found

(* The classification loop stopping one rule short of the end.             *)
classify_skipLast(ps, v, k, found) ==
    IF k < Len(ps) - 1
    THEN classify(ps, v, k + 1, IF predicate(ps[k + 1].predicate, v) THEN k ELSE found)
    ELSE found

classify(ps, v, k, found) ==
    IF k < Len(ps)
    THEN classify(ps, v, k + 1, IF predicate(ps[k + 1].predicate, v) THEN k ELSE found)
    ELSE found

(* compare returning the sign of what the comparator of the rule returns.  *)
compareCall_signOfCmp(ps, a, b) ==
    LET i == classify(ps, a, 0, -1)
        j == classify(ps, b, 0, -1)
        at(branch, result) == [i |-> i, j |-> j, branch |-> branch, result |-> result]
    IN  IF i # j THEN at("index", comparePrimitives(Num(i), Num(j)))
        ELSE IF i >= 0 /\ ps[i + 1].compare # "none"
        THEN at("cmp", comparePrimitives(Num(cmp(ps[i + 1].compare, a, b)), Num(0)))
        ELSE IF isObject(a)
        THEN IF isObject(b) THEN at("compareObjects", compareObjects(a, b, ps).result)
             ELSE at("objectOnly", -1)
        ELSE IF isArray(a)
        THEN IF isArray(b) THEN at("compareArrays", compareArrays(a, b, ps))
             ELSE at("arrayOnly", 1)
        ELSE at("neither", 0)

(* compare ending in `return x === y ? 0 : -1` instead of `return 0`.      *)
compareCall_identityFallback(ps, a, b) ==
    LET i == classify(ps, a, 0, -1)
        j == classify(ps, b, 0, -1)
        at(branch, result) == [i |-> i, j |-> j, branch |-> branch, result |-> result]
    IN  IF i # j THEN at("index", comparePrimitives(Num(i), Num(j)))
        ELSE IF i >= 0 /\ ps[i + 1].compare # "none"
        THEN at("cmp", cmp(ps[i + 1].compare, a, b))
        ELSE IF isObject(a)
        THEN IF isObject(b) THEN at("compareObjects", compareObjects(a, b, ps).result)
             ELSE at("objectOnly", -1)
        ELSE IF isArray(a)
        THEN IF isArray(b) THEN at("compareArrays", compareArrays(a, b, ps))
             ELSE at("arrayOnly", 1)
        ELSE at("neither", IF a = b THEN 0 ELSE -1)

(* compare starting its loop with `let i = 0; let j = 0`.                  *)
compareCall_fromZero(ps, a, b) ==
    LET i == classify(ps, a, 0, 0)
        j == classify(ps, b, 0, 0)
        at(branch, result) == [i |-> i, j |-> j, branch |-> branch, result |-> result]
    IN  IF i # j THEN at("index", comparePrimitives(Num(i), Num(j)))
        ELSE IF i >= 0 /\ ps[i + 1].compare # "none"
        THEN at("cmp", cmp(ps[i + 1].compare, a, b))
        ELSE IF isObject(a)
        THEN IF isObject(b) THEN at("compareObjects", compareObjects(a, b, ps).result)
             ELSE at("objectOnly", -1)
        ELSE IF isArray(a)
        THEN IF isArray(b) THEN at("compareArrays", compareArrays(a, b, ps))
             ELSE at("arrayOnly", 1)
        ELSE at("neither", 0)

(* The body of the closure `compare` of get(): what it returns, with the   *)
(* indices i and j its loop has found and the return statement it takes.   *)
compareCall(ps, a, b) ==
    LET i == classify(ps, a, 0, -1)
        j == classify(ps, b, 0, -1)
        at(branch, result) == [i |-> i, j |-> j, branch |-> branch, result |-> result]
    IN  IF i # j THEN at("index", comparePrimitives(Num(i), Num(j)))
        ELSE IF i >= 0 /\ ps[i + 1].compare # "none"
        THEN at("cmp", cmp(ps[i + 1].compare, a, b))
        ELSE IF isObject(a)
        THEN IF isObject(b) THEN at("compareObjects", compareObjects(a, b, ps).result)
             ELSE at("objectOnly", -1)
        ELSE IF isArray(a)
        THEN IF isArray(b) THEN at("compareArrays", compareArrays(a, b, ps))
             ELSE at("arrayOnly", 1)
        ELSE at("neither", 0)

compare(ps, a, b) == compareCall(ps, a, b).result

(* No call of compare has been made.                                       *)
NoTrace == [i |-> -1, j |-> -1, branch |-> "none"]

(* What a call has left behind of its indices and return statement.        *)
traceOf(call) == [i |-> call.i, j |-> call.j, branch |-> call.branch]

-----------------------------------------------------------------------------
(* Builder.                                                                *)

create == <<>>

(* this.#plugins.push(rule) before the copy, instead of the spread alone.  *)
appendRule_inPlace(this, rule) ==
    [returned |-> Append(this, rule), receiver |-> Append(this, rule)]

(* The new rule taking the place of the last one.                          *)
appendRule_replaceLast(this, rule) ==
    [returned |-> Append(SubSeq(this, 1, Len(this) - 1), rule), receiver |-> this]

(* new Builder([...this.#plugins, rule]): the rule list of the builder     *)
(* returned, and this.#plugins of the receiver after the call.             *)
appendRule(this, rule) ==
    [returned |-> Append(this, rule), receiver |-> this]

ifType(this, p, c) == appendRule(this, Plugin(p, c)).returned
thenTypeObject(this) == appendRule(this, Plugin("isObject", "none")).returned
thenTypeArray(this) == appendRule(this, Plugin("isArray", "none")).returned
get(this) == this

(* The default rule list with the array marker before the object marker.   *)
builder_arrayBeforeObject ==
    ifType(ifType(ifType(thenTypeObject(thenTypeArray(
        ifType(ifType(ifType(ifType(create,
            "isUndefined", "zero"),
            "isNull", "zero"),
            "isNumber", "comparePrimitives"),
            "isString", "comparePrimitives"))),
        "isBoolean", "comparePrimitives"),
        "isDate", "comparePrimitives"),
        "isRegExp", "comparePrimitives")

(* export const builder = Builder.create().ifType(...)...                  *)
builder ==
    ifType(ifType(ifType(thenTypeArray(thenTypeObject(
        ifType(ifType(ifType(ifType(create,
            "isUndefined", "zero"),
            "isNull", "zero"),
            "isNumber", "comparePrimitives"),
            "isString", "comparePrimitives"))),
        "isBoolean", "comparePrimitives"),
        "isDate", "comparePrimitives"),
        "isRegExp", "comparePrimitives")

-----------------------------------------------------------------------------
(* The value universe of the calls.                                        *)

a == <<97>>
b == <<98>>
c == <<99>>
KeyNames == {a, b, c}

(* The values of one category each, at least two per ordered category.     *)
Atoms ==
    {Undefined, Null, Num(0), Num(1), NaN, Str(<<>>), Str(a), Str(b),
     Bool(FALSE), Bool(TRUE), DateOf(0), DateOf(1), InvalidDate,
     RegExpOf(a), RegExpOf(b)}

(* The members of arrays.                                                  *)
Members == {Num(0), Num(1), NaN, Str(a)}
(* The property values of objects.                                         *)
PropertyValues == {Num(0), Num(1), NaN}

SeqsUpTo(S, n) == UNION {[1..k -> S] : k \in 0..n}
KeyLists(n) ==
    {ks \in SeqsUpTo(KeyNames, n) : \A i, j \in 1..Len(ks) : i # j => ks[i] # ks[j]}

Arrays(S) == {Arr(its) : its \in SeqsUpTo(S, MaxLen)}
Objects(S) ==
    UNION {{Obj(ks, its) : its \in [1..Len(ks) -> S]} : ks \in KeyLists(MaxKeys)}

(* Containers with one member, nested up to depth d.                       *)
RECURSIVE Chains(_)
Chains(d) ==
    IF d = 0 THEN {Num(1), NaN}
    ELSE LET inner == Chains(d - 1) \cup {Arr(<<>>), Obj(<<>>, <<>>)}
         IN  {Arr(<<v>>) : v \in inner} \cup {Obj(<<a>>, <<v>>) : v \in inner}

Containers ==
    Arrays(Members) \cup Objects(PropertyValues)
        \cup UNION {Chains(d) : d \in 1..MaxDepth}

Values == Atoms \cup Containers

(* The values of the triples.                                              *)
TransValues ==
    {Null, Num(0), Num(1), NaN, Str(a), Bool(TRUE)}
        \cup Arrays({Num(0), Num(1), NaN})
        \cup {Obj(<<a>>, <<v>>) : v \in {Num(0), Num(1), NaN}}

-----------------------------------------------------------------------------
(* The calls.                                                              *)

(* The module is loaded: `builder` is the default rule list and `compare`  *)
(* its comparator.  The first argument of the call to come is drawn here.  *)
Loaded ==
    /\ plugins = builder
    /\ compiled = get(builder)
    /\ op = "init"
    /\ y = Undefined
    /\ z = Undefined
    /\ xy = 0
    /\ yx = 0
    /\ yz = 0
    /\ xz = 0
    /\ calls = 0
    /\ trace = NoTrace
    /\ stack = <<>>

Init == Loaded /\ x \in Values

(* test 'compare is reflexive'                                             *)
TestReflexive ==
    /\ op = "init"
    /\ op' = "reflexive"
    /\ y' = x
    /\ xy' = compare(compiled, x, x)
    /\ yx' = xy'
    /\ UNCHANGED <<plugins, compiled, x, z, yz, xz, calls, trace, stack>>

(* test 'compare is asymmetric'                                            *)
TestAsymmetric ==
    /\ op = "init"
    /\ \E w \in Values :
        /\ op' = "asymmetric"
        /\ y' = w
        /\ xy' = compare(compiled, x, w)
        /\ yx' = compare(compiled, w, x)
        /\ UNCHANGED <<plugins, compiled, x, z, yz, xz, calls, trace, stack>>

(* test 'compare is transitive'                                            *)
TestTransitive ==
    /\ op = "init"
    /\ x \in TransValues
    /\ \E v, w \in TransValues :
        /\ op' = "transitive"
        /\ y' = v
        /\ z' = w
        /\ xy' = compare(compiled, x, v)
        /\ yz' = compare(compiled, v, w)
        /\ xz' = compare(compiled, x, w)
        /\ UNCHANGED <<plugins, compiled, x, yx, calls, trace, stack>>

(* compareObjects(x, y, compare), as compare calls it for two objects.     *)
CallCompareObjects ==
    /\ op = "init"
    /\ isObject(x)
    /\ \E w \in Objects(PropertyValues) :
        /\ op' = "compareObjects"
        /\ y' = w
        /\ xy' = compareObjects(x, w, compiled).result
        /\ calls' = compareObjects(x, w, compiled).calls
        /\ UNCHANGED <<plugins, compiled, x, z, yx, yz, xz, trace, stack>>

(* comparePrimitives(x, y) and comparePrimitives(y, x) on two primitives,  *)
(* dates or RegExps.                                                       *)
CallComparePrimitives ==
    /\ op = "init"
    /\ x \in Atoms
    /\ \E w \in Atoms :
        /\ op' = "comparePrimitives"
        /\ y' = w
        /\ xy' = comparePrimitives(x, w)
        /\ yx' = comparePrimitives(w, x)
        /\ UNCHANGED <<plugins, compiled, x, z, yz, xz, calls, trace, stack>>

Next ==
    \/ TestReflexive
    \/ TestAsymmetric
    \/ TestTransitive
    \/ CallCompareObjects
    \/ CallComparePrimitives

Spec == Init /\ [][Next]_vars

-----------------------------------------------------------------------------
(* The caller building comparators of its own, as the tests of 'extend     *)
(* default builder instance' and 'completely new builder instance' do.     *)

(* The rules the caller passes to ifType.                                  *)
RuleChoices ==
    {Plugin("isBox", "boxDiff"),
     Plugin("isNumber", "comparePrimitives"),
     Plugin("isString", "comparePrimitives")}

(* The arguments the caller compares with its comparators.                 *)
BuilderValues ==
    {Undefined, Null, Num(0), Num(1), Str(a), Bool(TRUE),
     Box(1), Box(2), Box(3), Fn(1), Fn(2),
     Obj(<<>>, <<>>), Obj(<<a>>, <<Box(1)>>), Obj(<<<<118, 97, 108, 117, 101>>>>, <<Num(1)>>),
     Obj(<<a, b>>, <<Box(1), Box(1)>>), Obj(<<a, b>>, <<Box(1), Box(2)>>),
     Arr(<<>>), Arr(<<Box(2)>>), Arr(<<Box(1)>>)}

(* The number of rules the caller has appended to create() or to builder.  *)
Appended(ps) ==
    IF Len(ps) >= Len(builder) /\ SubSeq(ps, 1, Len(builder)) = builder
    THEN Len(ps) - Len(builder)
    ELSE Len(ps)

(* Builder.create(), called before anything else is built.                 *)
Create ==
    /\ op = "init"
    /\ plugins = builder
    /\ compiled = get(builder)
    /\ plugins' = create
    /\ UNCHANGED <<compiled, op, x, y, z, xy, yx, yz, xz, calls, trace, stack>>

(* The comparator in hand reads this.#plugins of the builder it was got    *)
(* from each time it is called.  That builder is the receiver of a         *)
(* rule-adding call exactly when the two rule lists are equal: the list in *)
(* the caller's hands only grows after get().  The caller goes on with the *)
(* builder returned.                                                       *)
readByCompiled(receiverAfter) ==
    IF compiled = plugins THEN receiverAfter ELSE compiled

IfType ==
    /\ op = "init"
    /\ Appended(plugins) < MaxRules
    /\ \E r \in RuleChoices :
        /\ plugins' = ifType(plugins, r.predicate, r.compare)
        /\ compiled' = readByCompiled(appendRule(plugins, r).receiver)
    /\ UNCHANGED <<op, x, y, z, xy, yx, yz, xz, calls, trace, stack>>

ThenTypeObject ==
    /\ op = "init"
    /\ Appended(plugins) < MaxRules
    /\ plugins' = thenTypeObject(plugins)
    /\ compiled' = readByCompiled(appendRule(plugins, Plugin("isObject", "none")).receiver)
    /\ UNCHANGED <<op, x, y, z, xy, yx, yz, xz, calls, trace, stack>>

ThenTypeArray ==
    /\ op = "init"
    /\ Appended(plugins) < MaxRules
    /\ plugins' = thenTypeArray(plugins)
    /\ compiled' = readByCompiled(appendRule(plugins, Plugin("isArray", "none")).receiver)
    /\ UNCHANGED <<op, x, y, z, xy, yx, yz, xz, calls, trace, stack>>

Get ==
    /\ op = "init"
    /\ compiled' = get(plugins)
    /\ UNCHANGED <<plugins, op, x, y, z, xy, yx, yz, xz, calls, trace, stack>>

(* A call of the comparator in hand, both ways round.                      *)
CallCompare ==
    /\ op = "init"
    /\ \E v, w \in BuilderValues :
        /\ op' = "compare"
        /\ x' = v
        /\ y' = w
        /\ xy' = compareCall(compiled, v, w).result
        /\ yx' = compare(compiled, w, v)
        /\ trace' = traceOf(compareCall(compiled, v, w))
        /\ UNCHANGED <<plugins, compiled, z, yz, xz, calls, stack>>

(* The caller has extended the builder its comparator came from with one   *)
(* more rule, as the test 'extend default builder instance' does, and      *)
(* calls both comparators on the same arguments: xy is the result of the   *)
(* comparator in hand, xz that of the extended builder's.                  *)
CallExtended ==
    /\ op = "init"
    /\ \E r \in RuleChoices : plugins = ifType(compiled, r.predicate, r.compare)
    /\ \E v, w \in BuilderValues :
        /\ op' = "extended"
        /\ x' = v
        /\ y' = w
        /\ xy' = compare(compiled, v, w)
        /\ xz' = compare(get(plugins), v, w)
        /\ UNCHANGED <<plugins, compiled, z, yx, yz, calls, trace, stack>>

NextBuilder ==
    \/ Create
    \/ IfType
    \/ ThenTypeObject
    \/ ThenTypeArray
    \/ Get
    \/ CallCompare
    \/ CallExtended

InitBuilder == Loaded /\ x = Undefined

SpecBuilder == InitBuilder /\ [][NextBuilder]_vars

-----------------------------------------------------------------------------
(* One call of a comparator followed activation by activation, on values   *)
(* that may contain themselves.                                            *)

(* A reference to the object Heap[id]; arrays and objects that contain     *)
(* themselves hold such references among their members.                    *)
Ref(id) == Val("ref", id, FALSE, <<>>, <<>>, <<>>)

(* x = [x]; o = {a: o}; v = [1, v]; p = [q] with q = [p].                  *)
Heap ==
    <<Arr(<<Ref(1)>>),
      Obj(<<a>>, <<Ref(2)>>),
      Arr(<<Num(1), Ref(3)>>),
      Arr(<<Ref(5)>>),
      Arr(<<Ref(4)>>)>>

deref(v) == IF v.type = "ref" THEN Heap[v.num] ELSE v

(* The arguments of the calls followed.                                    *)
RunValues ==
    {Num(1), NaN, Str(a), Arr(<<>>), Obj(<<>>, <<>>),
     Arr(<<Num(1), Num(1)>>), Obj(<<a, b>>, <<Num(1), Arr(<<Num(0)>>)>>)}
        \cup UNION {Chains(d) : d \in 1..MaxDepth}
        \cup {Ref(id) : id \in 1..Len(Heap)}
        \cup {Arr(<<Ref(1)>>)}

(* The comparators called: the default one and the one of the test         *)
(* 'completely new builder instance'.                                      *)
RunComparators ==
    {get(builder),
     get(ifType(ifType(create, "isNumber", "comparePrimitives"), "isBox", "boxDiff"))}

(* An activation of compare(a, b): where it stands, the index i of the     *)
(* loop of the helper it has called, and the result it is about to return. *)
Frame(va, vb) == [a |-> va, b |-> vb, pc |-> "compare", i |-> 0, result |-> 0]

(* compare(a, b) from its entry to its return statement or to the call of  *)
(* compareObjects / compareArrays.                                         *)
enter(ps, f) ==
    LET va == deref(f.a)
        vb == deref(f.b)
        i == classify(ps, va, 0, -1)
        j == classify(ps, vb, 0, -1)
        return(r) == [f EXCEPT !.pc = "return", !.result = r]
        helper(h) == [f EXCEPT !.pc = h, !.i = 0]
    IN  IF i # j THEN return(comparePrimitives(Num(i), Num(j)))
        ELSE IF i >= 0 /\ ps[i + 1].compare # "none"
        THEN return(cmp(ps[i + 1].compare, va, vb))
        ELSE IF isObject(va)
        THEN IF isObject(vb) THEN helper("compareObjects") ELSE return(-1)
        ELSE IF isArray(va)
        THEN IF isArray(vb) THEN helper("compareArrays") ELSE return(1)
        ELSE return(0)

(* The loop of compareObjects / compareArrays at index f.i: the two values *)
(* it passes to compare, or the result it returns without another call.    *)
iterate(f) ==
    LET va == deref(f.a)
        vb == deref(f.b)
        keysOfX == sort(objectKeys(va))
        keysOfY == sort(objectKeys(vb))
        n == IF f.pc = "compareObjects" THEN Len(keysOfX) ELSE Len(va.items)
        m == IF f.pc = "compareObjects" THEN Len(keysOfY) ELSE Len(vb.items)
        return(r) == [calls |-> FALSE, result |-> r, a |-> Undefined, b |-> Undefined]
        call(v, w) == [calls |-> TRUE, result |-> 0, a |-> v, b |-> w]
    IN  IF f.i < n /\ f.i < m
        THEN IF f.pc = "compareObjects"
             THEN LET keyResult == comparePrimitives(Str(keysOfX[f.i + 1]),
                                                     Str(keysOfY[f.i + 1]))
                  IN  IF keyResult # 0 THEN return(keyResult)
                      ELSE call(getProperty(va, keysOfX[f.i + 1]),
                                getProperty(vb, keysOfY[f.i + 1]))
             ELSE call(va.items[f.i + 1], vb.items[f.i + 1])
        ELSE return(comparePrimitives(Num(n), Num(m)))

(* The loop going round again at the same index after a result of 0.       *)
resume_sameIndex(f, r) ==
    IF r # 0
    THEN [f EXCEPT !.pc = "return", !.result = r]
    ELSE f

(* The loop of the helper after compare has returned r to it: a result     *)
(* other than 0 is returned at once, 0 moves the loop to the next index.   *)
resume(f, r) ==
    IF r # 0
    THEN [f EXCEPT !.pc = "return", !.result = r]
    ELSE [f EXCEPT !.i = @ + 1]

(* A call of compare that takes a pair it is already comparing for equal.  *)
call_knownPair(st, va, vb) ==
    IF \E k \in 1..Len(st) : st[k].a = va /\ st[k].b = vb
    THEN [st EXCEPT ![Len(st)] = resume(@, 0)]
    ELSE Append(st, Frame(va, vb))

(* compare(va, vb) called by a helper: a new activation on the stack.      *)
call(st, va, vb) == Append(st, Frame(va, vb))

(* compare runs from its entry to its return statement or helper call.     *)
Enter ==
    /\ op = "running"
    /\ stack # <<>>
    /\ stack[Len(stack)].pc = "compare"
    /\ stack' = [stack EXCEPT ![Len(stack)] = enter(compiled, @)]
    /\ UNCHANGED <<plugins, compiled, op, x, y, z, xy, yx, yz, xz, calls, trace>>

(* The helper returns: the keys differ or one side has run out.            *)
Iterate ==
    /\ op = "running"
    /\ stack # <<>>
    /\ stack[Len(stack)].pc \in {"compareObjects", "compareArrays"}
    /\ ~iterate(stack[Len(stack)]).calls
    /\ stack' = [stack EXCEPT ![Len(stack)] =
                    [@ EXCEPT !.pc = "return",
                              !.result = iterate(stack[Len(stack)]).result]]
    /\ UNCHANGED <<plugins, compiled, op, x, y, z, xy, yx, yz, xz, calls, trace>>

(* The helper calls compare on the members at its index.                   *)
Call ==
    /\ op = "running"
    /\ stack # <<>>
    /\ stack[Len(stack)].pc \in {"compareObjects", "compareArrays"}
    /\ iterate(stack[Len(stack)]).calls
    /\ Len(stack) < MaxStack
    /\ stack' = call(stack, iterate(stack[Len(stack)]).a, iterate(stack[Len(stack)]).b)
    /\ UNCHANGED <<plugins, compiled, op, x, y, z, xy, yx, yz, xz, calls, trace>>

(* The call stack has no room for the call: the comparison ends without a  *)
(* result.                                                                 *)
Overflow ==
    /\ op = "running"
    /\ stack # <<>>
    /\ stack[Len(stack)].pc \in {"compareObjects", "compareArrays"}
    /\ iterate(stack[Len(stack)]).calls
    /\ Len(stack) = MaxStack
    /\ op' = "overflow"
    /\ UNCHANGED <<plugins, compiled, x, y, z, xy, yx, yz, xz, calls, trace, stack>>

(* A nested compare returns to the helper that called it.                  *)
Return ==
    /\ op = "running"
    /\ Len(stack) > 1
    /\ stack[Len(stack)].pc = "return"
    /\ stack' = [SubSeq(stack, 1, Len(stack) - 1) EXCEPT ![Len(stack) - 1] =
                    resume(@, stack[Len(stack)].result)]
    /\ UNCHANGED <<plugins, compiled, op, x, y, z, xy, yx, yz, xz, calls, trace>>

(* The outermost compare returns its result to the caller.                 *)
Finish ==
    /\ op = "running"
    /\ Len(stack) = 1
    /\ stack[1].pc = "return"
    /\ op' = "returned"
    /\ xy' = stack[1].result
    /\ stack' = <<>>
    /\ UNCHANGED <<plugins, compiled, x, y, z, yx, yz, xz, calls, trace>>

NextRun == Enter \/ Iterate \/ Call \/ Overflow \/ Return \/ Finish

InitRun ==
    /\ plugins = builder
    /\ compiled \in RunComparators
    /\ op = "running"
    /\ x \in RunValues
    /\ y \in RunValues
    /\ stack = <<Frame(x, y)>>
    /\ z = Undefined
    /\ xy = 0
    /\ yx = 0
    /\ yz = 0
    /\ xz = 0
    /\ calls = 0
    /\ trace = NoTrace

(* A call in progress goes on: nothing else runs.                          *)
SpecRun == InitRun /\ [][NextRun]_vars /\ WF_vars(NextRun)

-----------------------------------------------------------------------------
(* Notions the claims are stated with, defined apart from the comparator.  *)

Min(S) == CHOOSE i \in S : \A j \in S : i <= j
Max(S) == CHOOSE i \in S : \A j \in S : i >= j
Sign(n) == IF n < 0 THEN -1 ELSE IF n > 0 THEN 1 ELSE 0

(* s before t by code units: t goes on where s ends, or has the greater    *)
(* code unit at the first position where they differ.                      *)
CodeUnitsBefore(s, t) ==
    \E k \in 1..Len(t) :
        /\ k <= Len(s) + 1
        /\ \A i \in 1..(k - 1) : s[i] = t[i]
        /\ (k = Len(s) + 1 \/ s[k] < t[k])

(* v < w for two values of one type: numbers, booleans and dates by their  *)
(* number unless one is NaN, strings by code units, RegExps by "/source/". *)
Before(v, w) ==
    CASE v.type \in {"number", "boolean", "date"} -> ~v.nan /\ ~w.nan /\ v.num < w.num
      [] v.type = "string" -> CodeUnitsBefore(v.str, w.str)
      [] v.type = "regexp" ->
            CodeUnitsBefore(<<47>> \o v.str \o <<47>>, <<47>> \o w.str \o <<47>>)
      [] OTHER -> FALSE

(* The references held anywhere inside a value, without following them.    *)
RECURSIVE RefsIn(_)
RefsIn(v) ==
    IF v.type = "ref" THEN {v.num}
    ELSE UNION {RefsIn(v.items[i]) : i \in 1..Len(v.items)}

(* The heap objects reached from those of ids in at most n steps.          *)
RECURSIVE ReachedFrom(_, _)
ReachedFrom(ids, n) ==
    IF n = 0 THEN ids
    ELSE ReachedFrom(ids \cup UNION {RefsIn(Heap[id]) : id \in ids}, n - 1)

(* A value that contains itself, or has such a value inside.               *)
Cyclic(v) ==
    \E id \in ReachedFrom(RefsIn(v), Len(Heap)) :
        id \in ReachedFrom(RefsIn(Heap[id]), Len(Heap))

(* The nesting depth of a value: 0 for a value without members, one more   *)
(* than its deepest member for an array or object, 1 for an empty one.     *)
RECURSIVE Depth(_)
Depth(v) ==
    IF v.type \in {"array", "object"}
    THEN 1 + Max({0} \cup {Depth(v.items[i]) : i \in 1..Len(v.items)})
    ELSE 0

(* Neither v nor any value nested inside it satisfies the predicate p.     *)
RECURSIVE NoneMatches(_, _)
NoneMatches(p, v) ==
    /\ ~predicate(p, v)
    /\ \A i \in 1..Len(v.items) : NoneMatches(p, v.items[i])

(* The 0-based indices of the rules of ps whose predicate v satisfies.     *)
Matching(ps, v) == {k \in 0..(Len(ps) - 1) : predicate(ps[k + 1].predicate, v)}
(* The highest of them, -1 when there is none.                             *)
LastMatching(ps, v) == IF Matching(ps, v) = {} THEN -1 ELSE Max(Matching(ps, v))

(* A rule list made by Builder.create() followed by ifType calls only,     *)
(* no two of them with the same predicate.                                 *)
LeafRulesOnly(ps) ==
    /\ \A k \in 1..Len(ps) : ps[k].compare # "none"
    /\ \A k, l \in 1..Len(ps) : k # l => ps[k].predicate # ps[l].predicate

(* What the comparator of the rule list ps owes for two members v and w:   *)
(* the order of their rules, the comparator of their common rule, or the   *)
(* structural result when they have no rule with a comparator in common.   *)
ByAllRules(ps, v, w) ==
    LET k == LastMatching(ps, v)
        l == LastMatching(ps, w)
    IN  IF k # l THEN (IF k < l THEN -1 ELSE 1)
        ELSE IF k >= 0 /\ ps[k + 1].compare # "none" THEN cmp(ps[k + 1].compare, v, w)
        ELSE compare(ps, v, w)

(* The default categories, lowest first.                                   *)
Rank(v) ==
    CASE v.type = "undefined" -> 0
      [] v.type = "null" -> 1
      [] v.type = "number" -> 2
      [] v.type = "string" -> 3
      [] v.type = "object" -> 4
      [] v.type = "array" -> 5
      [] v.type = "boolean" -> 6
      [] v.type = "date" -> 7
      [] v.type = "regexp" -> 8

(* The key list of an object in ascending code unit order.                 *)
KeysInOrder(v) ==
    CHOOSE ks \in [1..Len(v.keys) -> {v.keys[i] : i \in 1..Len(v.keys)}] :
        \A i, j \in 1..Len(v.keys) : i < j => StringLess(ks[i], ks[j])

KeySet(v) == {v.keys[i] : i \in 1..Len(v.keys)}
ValueAt(v, k) == v.items[CHOOSE i \in 1..Len(v.keys) : v.keys[i] = k]

(* A value JSON.parse can produce.                                         *)
RECURSIVE IsJSON(_)
IsJSON(v) ==
    \/ v.type \in {"null", "boolean", "string"}
    \/ v.type = "number" /\ ~v.nan
    \/ v.type \in {"array", "object"} /\ \A i \in 1..Len(v.items) : IsJSON(v.items[i])

(* Structural equality of two values.                                      *)
RECURSIVE StructEq(_, _)
StructEq(v, w) ==
    /\ v.type = w.type
    /\ CASE v.type = "array" ->
                /\ Len(v.items) = Len(w.items)
                /\ \A i \in 1..Len(v.items) : StructEq(v.items[i], w.items[i])
         [] v.type = "object" ->
                /\ KeySet(v) = KeySet(w)
                /\ \A k \in KeySet(v) : StructEq(ValueAt(v, k), ValueAt(w, k))
         [] OTHER -> v.num = w.num /\ v.nan = w.nan /\ v.str = w.str

(* The same object with its properties inserted in another order.          *)
Reorderings(v) ==
    LET n == Len(v.keys)
        perms == {p \in [1..n -> 1..n] : \A i, j \in 1..n : i # j => p[i] # p[j]}
    IN  {Obj([i \in 1..n |-> v.keys[p[i]]], [i \in 1..n |-> v.items[p[i]]]) : p \in perms}

-----------------------------------------------------------------------------
(* C1: the default comparator is strictly transitive: compare(x,y) < 0 and *)
(* compare(y,z) < 0 give compare(x,z) < 0, and the same with > 0.          *)
C1_Transitive ==
    op = "transitive" =>
        /\ (xy < 0 /\ yz < 0) => xz < 0
        /\ (xy > 0 /\ yz > 0) => xz > 0

(* C2: the default comparator is antisymmetric: compare(x,y) is exactly    *)
(* -compare(y,x), the two results being (0,0), (-1,1) or (1,-1).           *)
C2_Antisymmetric ==
    op = "asymmetric" =>
        /\ xy = -yx
        /\ <<xy, yx>> \in {<<0, 0>>, <<-1, 1>>, <<1, -1>>}

C2_Witness ==
    /\ op = "asymmetric"
    /\ x = Arr(<<NaN, Num(1)>>)
    /\ y = Arr(<<Num(0), Num(0)>>)
    /\ xy = 1
    /\ yx = -1

(* C3: the default comparator is reflexive: compare(x,x) = 0 for every x,  *)
(* NaN, undefined, null and containers holding NaN included.               *)
C3_Reflexive == op = "reflexive" => xy = 0

C3_Witness ==
    /\ op = "reflexive"
    /\ x = Arr(<<Obj(<<a>>, <<NaN>>)>>)
    /\ xy = 0

(* C4: result 0 is an equivalence compatible with the order: compare(x,y)  *)
(* = 0 and compare(y,z) = 0 give compare(x,z) = 0, and compare(x,y) = 0    *)
(* and compare(y,z) < 0 give compare(x,z) < 0.                             *)
C4_ZeroIsEquivalence ==
    op = "transitive" =>
        /\ (xy = 0 /\ yz = 0) => xz = 0
        /\ (xy = 0 /\ yz < 0) => xz < 0

(* C5: a value of an earlier default category compares -1 with a value of *)
(* a later one, and 1 the other way round, whatever their contents.        *)
C5_CategoryPrecedence ==
    (op = "asymmetric" /\ Rank(x) < Rank(y)) => (xy = -1 /\ yx = 1)

C5_Witness ==
    /\ op = "asymmetric"
    /\ x = Obj(<<b, a>>, <<Num(1), Num(1)>>)
    /\ y = Arr(<<>>)
    /\ xy = -1
    /\ yx = 1

(* C6: on JSON values compare(x,y) = 0 exactly when x and y are            *)
(* structurally equal, and otherwise one of the two comes first.           *)
C6_JSONTotalOrder ==
    (op = "asymmetric" /\ IsJSON(x) /\ IsJSON(y)) =>
        /\ (xy = 0) <=> StructEq(x, y)
        /\ ~StructEq(x, y) => <<xy, yx>> \in {<<-1, 1>>, <<1, -1>>}

C6_Witness ==
    /\ op = "asymmetric"
    /\ x = Obj(<<a, b>>, <<Num(0), Num(1)>>)
    /\ y = Obj(<<b, a>>, <<Num(1), Num(0)>>)
    /\ xy = 0

(* C7: two objects with the same key set whose values compare 0 key by key *)
(* compare 0, and compare(x,y) is the same for every insertion order of    *)
(* the properties of x and of y.                                           *)
C7_KeyOrderIndependent ==
    (op = "asymmetric" /\ x.type = "object" /\ y.type = "object") =>
        /\ (/\ KeySet(x) = KeySet(y)
            /\ \A k \in KeySet(x) : compare(compiled, ValueAt(x, k), ValueAt(y, k)) = 0)
                => xy = 0
        /\ \A x2 \in Reorderings(x) : compare(compiled, x2, y) = xy
        /\ \A y2 \in Reorderings(y) : compare(compiled, x, y2) = xy

C7_Witness ==
    /\ op = "asymmetric"
    /\ x = Obj(<<b, a>>, <<Num(1), Num(0)>>)
    /\ y = Obj(<<a, c>>, <<Num(0), NaN>>)
    /\ xy = -1

(* C8: compareObjects is lexicographic over the key-sorted entries: the    *)
(* first position where the keys differ or the values compare nonzero      *)
(* decides; a key difference decides by key order without inspecting the   *)
(* value there or any later one; with no such position the object with     *)
(* fewer keys is less and equal key counts give 0.                         *)
C8_ObjectsLexicographic ==
    op = "compareObjects" =>
        LET kx == KeysInOrder(x)
            ky == KeysInOrder(y)
            n == Len(kx)
            m == Len(ky)
            common == IF n < m THEN n ELSE m
            valueResult(i) == compare(compiled, ValueAt(x, kx[i]), ValueAt(y, ky[i]))
            D == {i \in 1..common : kx[i] # ky[i] \/ valueResult(i) # 0}
        IN  IF D = {}
            THEN xy = Sign(n - m) /\ calls = common
            ELSE LET d == Min(D)
                 IN  IF kx[d] # ky[d]
                     THEN /\ xy = (IF StringLess(kx[d], ky[d]) THEN -1 ELSE 1)
                          /\ calls = d - 1
                     ELSE /\ xy = valueResult(d)
                          /\ calls = d

C8_Witness ==
    /\ op = "compareObjects"
    /\ x = Obj(<<b, a>>, <<Num(0), Num(1)>>)
    /\ y = Obj(<<c, a>>, <<Num(1), NaN>>)
    /\ xy = -1
    /\ calls = 1

(* C9: compareArrays is lexicographic: the first element pair, by index up *)
(* to the shorter length, whose comparison is nonzero gives the result;    *)
(* with no such pair the shorter array is less and equal lengths give 0.   *)
C9_ArraysLexicographic ==
    (op = "asymmetric" /\ x.type = "array" /\ y.type = "array") =>
        LET n == Len(x.items)
            m == Len(y.items)
            common == IF n < m THEN n ELSE m
            D == {i \in 1..common : compare(compiled, x.items[i], y.items[i]) # 0}
        IN  IF D = {}
            THEN xy = Sign(n - m)
            ELSE xy = compare(compiled, x.items[Min(D)], y.items[Min(D)])

C9_Witness ==
    /\ op = "asymmetric"
    /\ x = Arr(<<NaN, Num(1)>>)
    /\ y = Arr(<<Num(1)>>)
    /\ xy = 1

(* C10: a rule appended with ifType sorts after everything defined so far: *)
(* with c = b.ifType(P, F).get(), c(x,y) = 1 and c(y,x) = -1 whenever x     *)
(* matches P and y does not.                                               *)
C10_AppendedRuleSortsLast ==
    (/\ op = "compare"
     /\ Len(compiled) > 0
     /\ compiled[Len(compiled)].compare # "none"
     /\ predicate(compiled[Len(compiled)].predicate, x)
     /\ ~predicate(compiled[Len(compiled)].predicate, y))
        => (xy = 1 /\ yx = -1)

C10_Witness ==
    /\ op = "compare"
    /\ compiled = ifType(builder, "isBox", "boxDiff")
    /\ x = Box(1)
    /\ y = Arr(<<Box(2)>>)
    /\ xy = 1
    /\ yx = -1

(* C11: when the highest-index matching rule of x and of y is the same     *)
(* rule and it carries a comparator F, the compiled comparator returns     *)
(* exactly F(x,y), neither its sign nor a structural result.               *)
C11_DelegatesToRuleComparator ==
    LET k == LastMatching(compiled, x)
    IN  (/\ op = "compare"
         /\ k >= 0
         /\ k = LastMatching(compiled, y)
         /\ compiled[k + 1].compare # "none")
            => /\ xy = cmp(compiled[k + 1].compare, x, y)
               /\ yx = cmp(compiled[k + 1].compare, y, x)
               /\ trace.branch = "cmp"

C11_Witness ==
    /\ op = "compare"
    /\ compiled = ifType(builder, "isBox", "boxDiff")
    /\ x = Box(1)
    /\ y = Box(3)
    /\ xy = -2
    /\ yx = 2

(* C12: the members of two arrays and the values of two plain objects are  *)
(* compared with all the rules of the comparator being called, those       *)
(* appended after the object/array markers and those of a builder without  *)
(* markers included: the result is that of the first position where the    *)
(* keys differ or the full rule list orders the members.                   *)
C12_RecursionUsesFullRuleSet ==
    op = "compare" =>
        /\ (x.type = "array" /\ y.type = "array") =>
                LET n == Len(x.items)
                    m == Len(y.items)
                    D == {i \in 1..(IF n < m THEN n ELSE m) :
                             ByAllRules(compiled, x.items[i], y.items[i]) # 0}
                IN  /\ trace.branch = "compareArrays"
                    /\ xy = IF D = {} THEN Sign(n - m)
                            ELSE ByAllRules(compiled, x.items[Min(D)], y.items[Min(D)])
        /\ (x.type = "object" /\ y.type = "object") =>
                LET kx == KeysInOrder(x)
                    ky == KeysInOrder(y)
                    n == Len(kx)
                    m == Len(ky)
                    byRules(i) == ByAllRules(compiled, ValueAt(x, kx[i]), ValueAt(y, ky[i]))
                    D == {i \in 1..(IF n < m THEN n ELSE m) : kx[i] # ky[i] \/ byRules(i) # 0}
                IN  /\ trace.branch = "compareObjects"
                    /\ xy = IF D = {} THEN Sign(n - m)
                            ELSE IF kx[Min(D)] # ky[Min(D)]
                            THEN (IF StringLess(kx[Min(D)], ky[Min(D)]) THEN -1 ELSE 1)
                            ELSE byRules(Min(D))

C12_Witness ==
    /\ op = "compare"
    /\ compiled = ifType(ifType(create, "isNumber", "comparePrimitives"), "isBox", "boxDiff")
    /\ x = Obj(<<a, b>>, <<Box(1), Box(1)>>)
    /\ y = Obj(<<a, b>>, <<Box(1), Box(2)>>)
    /\ trace.branch = "compareObjects"
    /\ xy = -1
    /\ yx = 1

(* C13: builders are immutable and comparators frozen: a rule-adding call  *)
(* gives the caller the rule list of its receiver with exactly one rule    *)
(* appended at the end, and leaves the rule list read by the comparator    *)
(* in hand, the receiver's own included, as it was, so that the comparator *)
(* returns what it returned before on every pair.                          *)
C13_BuildersImmutable ==
    [][(op = "init" /\ plugins' # plugins /\ plugins' # create)
        => /\ Len(plugins') = Len(plugins) + 1
           /\ SubSeq(plugins', 1, Len(plugins)) = plugins
           /\ compiled' = compiled
           /\ \A v, w \in BuilderValues :
                  compare(compiled', v, w) = compare(compiled, v, w)]_vars

C13_Witness ==
    /\ op = "compare"
    /\ plugins = ifType(builder, "isBox", "boxDiff")
    /\ compiled = builder
    /\ x = Box(1)
    /\ y = Box(3)
    /\ trace.branch = "compareObjects"
    /\ xy = -1

(* C14: a comparator built from Builder.create() and ifType rules with     *)
(* disjoint predicates and antisymmetric comparators is antisymmetric:     *)
(* compare(x,y) and compare(y,x) are both 0 or of opposite signs, plain    *)
(* objects, arrays and values matching no rule included.                   *)
C14_UserBuiltAntisymmetric ==
    (op = "compare" /\ LeafRulesOnly(compiled)) => Sign(xy) = -Sign(yx)

(* C15: Builder.create() comes with the object and array markers: in a    *)
(* comparator built from create() and leaf rules a plain object or an      *)
(* array gets a rule index >= 0, not the index -1 of unclassified values.  *)
C15_CreateInstallsMarkers ==
    (/\ op = "compare"
     /\ \A k \in (Len(create) + 1)..Len(compiled) : compiled[k].compare # "none"
     /\ x.type \in {"object", "array"})
        => trace.i >= 0

(* C16: the default comparator is total: on every pair of values, of any   *)
(* mix of categories, with NaN, undefined or nested containers, it returns *)
(* one of -1, 0, 1; and the default builder can always be extended and     *)
(* built.                                                                  *)
C16_DefaultComparatorTotal ==
    /\ op \in {"reflexive", "asymmetric", "compareObjects"} =>
            xy \in {-1, 0, 1} /\ yx \in {-1, 0, 1}
    /\ op = "transitive" => {xy, yz, xz} \subseteq {-1, 0, 1}
    /\ op = "init" =>
            Len(get(thenTypeArray(thenTypeObject(ifType(plugins, "isBox", "boxDiff")))))
                = Len(plugins) + 3

C16_Witness ==
    /\ op = "asymmetric"
    /\ x = Undefined
    /\ y = Arr(<<NaN, Num(1)>>)
    /\ xy = -1
    /\ yx = 1

(* C17: the index compare uses for a value is the highest index of a rule  *)
(* whose predicate matches it, -1 when none does; when the indices i of x  *)
(* and j of y differ, the result is -1 for i < j and 1 for i > j, returned *)
(* before any rule comparator is called or any member looked at.           *)
C17_LastMatchingRuleClassifies ==
    op = "compare" =>
        /\ trace.i = LastMatching(compiled, x)
        /\ trace.j = LastMatching(compiled, y)
        /\ trace.i # trace.j =>
                /\ trace.branch = "index"
                /\ xy = (IF trace.i < trace.j THEN -1 ELSE 1)
                /\ yx = (IF trace.j < trace.i THEN -1 ELSE 1)

C17_Witness ==
    /\ op = "compare"
    /\ compiled = ifType(builder, "isBox", "boxDiff")
    /\ x = Box(1)
    /\ y = Obj(<<a>>, <<Box(1)>>)
    /\ Matching(compiled, x) = {4, 9}
    /\ trace = [i |-> 9, j |-> 4, branch |-> "index"]
    /\ xy = 1
    /\ yx = -1

(* C18 as stated: on overlap the first matching rule wins: a value that    *)
(* satisfies the predicates of several rules gets the index of the         *)
(* earliest of them, and two class instances matched by a custom rule      *)
(* registered before the object marker are compared by that rule.          *)
C18_FirstMatchingRuleWins ==
    op = "compare" =>
        /\ Cardinality(Matching(compiled, x)) > 1 => trace.i = Min(Matching(compiled, x))
        /\ (/\ x.type = "box"
            /\ y.type = "box"
            /\ Len(compiled) = 2
            /\ compiled[1] = Plugin("isBox", "boxDiff")
            /\ compiled[2] = Plugin("isObject", "none"))
                => trace.branch = "cmp" /\ xy = boxDiff(x, y)

(* C18, amended: on overlap the last matching rule wins: a value that      *)
(* satisfies the predicates of several rules gets the index of the latest  *)
(* of them; a class instance matched by a custom rule also satisfies       *)
(* isObject, so with the object marker registered after that rule it is    *)
(* classified by the marker and compared as a plain object.                *)
C18_LastMatchingRuleWins ==
    op = "compare" =>
        /\ Cardinality(Matching(compiled, x)) > 1 =>
                /\ trace.i = Max(Matching(compiled, x))
                /\ trace.i # Min(Matching(compiled, x))
        /\ (/\ x.type = "box"
            /\ y.type = "box"
            /\ Len(compiled) = 2
            /\ compiled[1] = Plugin("isBox", "boxDiff")
            /\ compiled[2] = Plugin("isObject", "none"))
                => /\ trace = [i |-> 1, j |-> 1, branch |-> "compareObjects"]
                   /\ xy = compareObjects(x, y, compiled).result

C18_Witness ==
    /\ op = "compare"
    /\ compiled = thenTypeObject(ifType(create, "isBox", "boxDiff"))
    /\ x = Box(1)
    /\ y = Box(3)
    /\ Matching(compiled, x) = {0, 1}
    /\ trace = [i |-> 1, j |-> 1, branch |-> "compareObjects"]
    /\ xy = 0
    /\ boxDiff(x, y) = -2

(* C19: the structural fallback returns -1 for a plain object x only      *)
(* against an array y, and 1 for an array x only against a plain object y, *)
(* whatever builder the comparator came from.                              *)
C19_FallbackMeetsObjectAndArrayOnly ==
    op = "compare" =>
        /\ trace.branch = "objectOnly" => isArray(y)
        /\ trace.branch = "arrayOnly" => isObject(y)

(* C20: two values that match no rule and are neither objects nor arrays   *)
(* for isObject and isArray are equal: compare returns 0 both ways round.  *)
C20_UnclassifiedValuesEqual ==
    (/\ op = "compare"
     /\ Matching(compiled, x) = {}
     /\ Matching(compiled, y) = {}
     /\ ~isObject(x) /\ ~isArray(x)
     /\ ~isObject(y) /\ ~isArray(y))
        => /\ xy = 0
           /\ yx = 0
           /\ trace = [i |-> -1, j |-> -1, branch |-> "neither"]

C20_Witness ==
    /\ op = "compare"
    /\ compiled = ifType(ifType(create, "isNumber", "comparePrimitives"), "isBox", "boxDiff")
    /\ x = Fn(1)
    /\ y = Str(a)
    /\ xy = 0
    /\ yx = 0

(* C21: comparePrimitives(x,y) is -1 when x < y, 1 when x > y and 0 in     *)
(* every other case; with NaN (or an invalid date) on either side it is 0  *)
(* both ways round, NaN against NaN included.                              *)
C21_ComparePrimitives ==
    op = "comparePrimitives" =>
        /\ xy \in {-1, 0, 1}
        /\ x.type = y.type =>
                xy = (IF Before(x, y) THEN -1 ELSE IF Before(y, x) THEN 1 ELSE 0)
        /\ (x.nan \/ y.nan) => (xy = 0 /\ yx = 0)

C21_Witness ==
    /\ op = "comparePrimitives"
    /\ x = NaN
    /\ y = NaN
    /\ xy = 0
    /\ yx = 0

(* A call followed activation by activation returns what compare gives.    *)
RunAgreesWithCompare ==
    (op = "returned" /\ ~Cyclic(x) /\ ~Cyclic(y)) => xy = compare(compiled, x, y)

(* C22: a call of a compiled comparator on two finite acyclic values       *)
(* terminates, and the calls of compare nested inside it at any time are   *)
(* never more than the nesting depth of the deeper argument.               *)
C22_TerminatesWithinDepth ==
    /\ []((~Cyclic(x) /\ ~Cyclic(y)) =>
            /\ op # "overflow"
            /\ op = "running" => Len(stack) - 1 <= Max({Depth(x), Depth(y)}))
    /\ (op = "running" /\ ~Cyclic(x) /\ ~Cyclic(y)) ~> (op = "returned")

C22_Witness ==
    /\ op = "running"
    /\ x = Arr(<<Arr(<<Num(1)>>)>>)
    /\ y = Arr(<<Arr(<<NaN>>)>>)
    /\ Depth(x) = 2
    /\ Len(stack) = 3

(* C23 as stated: with an argument that contains itself, directly or      *)
(* through members, the comparison never returns a result.                 *)
C23_CyclicNeverReturns ==
    (Cyclic(x) \/ Cyclic(y)) => op # "returned"

(* C23, amended: there is no cycle detection, yet only a comparison that   *)
(* comes back to a pair of values it is still comparing fails to return:   *)
(* a value that contains itself compared with itself never returns, the    *)
(* recursion descending until the call stack is exhausted; a comparison    *)
(* with an acyclic argument always returns.                                *)
C23_NoCycleDetection ==
    /\ (Cyclic(x) /\ x = y) => op # "returned"
    /\ (~Cyclic(x) \/ ~Cyclic(y)) => op # "overflow"
    /\ op = "overflow" =>
            \E k, l \in 1..Len(stack) :
                k < l /\ stack[k].a = stack[l].a /\ stack[k].b = stack[l].b

C23_Witness ==
    /\ op = "overflow"
    /\ x = Ref(1)
    /\ y = Ref(1)
    /\ Len(stack) = MaxStack
    /\ stack[MaxStack].a = Ref(1)

(* C24: a value that matches no rule sorts before every value that        *)
(* matches one: compare(u,c) = -1 and compare(c,u) = 1, decided by the     *)
(* indices alone; with the default comparator such a value sorts before    *)
(* undefined.                                                              *)
C24_UnmatchedSortFirst ==
    (/\ op = "compare"
     /\ Matching(compiled, x) = {}
     /\ Matching(compiled, y) # {})
        => /\ xy = -1
           /\ yx = 1
           /\ trace.i = -1
           /\ trace.branch = "index"

C24_Witness ==
    /\ op = "compare"
    /\ compiled = builder
    /\ x = Fn(1)
    /\ y = Undefined
    /\ xy = -1
    /\ yx = 1

(* C25: appending a rule is a conservative extension: on two values that  *)
(* the predicate of the new rule matches neither themselves nor anywhere   *)
(* inside, the comparator of the extended builder returns what the         *)
(* comparator of the builder it extends returns.                           *)
C25_ConservativeExtension ==
    (/\ op = "extended"
     /\ NoneMatches(plugins[Len(plugins)].predicate, x)
     /\ NoneMatches(plugins[Len(plugins)].predicate, y))
        => xz = xy

C25_Witness ==
    /\ op = "extended"
    /\ compiled = builder
    /\ plugins = ifType(builder, "isBox", "boxDiff")
    /\ x = Obj(<<<<118, 97, 108, 117, 101>>>>, <<Num(1)>>)
    /\ y = Arr(<<>>)
    /\ xy = -1
    /\ xz = -1

====
